---- MODULE Spec2Model ----
(***************************************************************************)
(* lvsfunc/render.py: clip_async_render, its completion callback cb and    *)
(* finish_frame.                                                           *)
(*                                                                         *)
(* The driver thread (clip_async_render) writes the sink headers, takes    *)
(* the lock of ctx.condition, seeds min(num_frames, num_threads) frame     *)
(* requests and waits on the condition until ctx.frames_rendered equals    *)
(* num_frames.  Every future that resolves runs cb on a worker thread of   *)
(* the frame source.  cb takes the lock of ctx.condition only for its      *)
(* final notify (lines 138-140); everything before that runs unlocked, so  *)
(* the statements of two callbacks interleave.  Each action below is one   *)
(* statement (or one straight-line group of statements) of cb.             *)
(*                                                                         *)
(* An exception that leaves cb (f.result() of a failed future, a KeyError, *)
(* an IndexError) ends that callback: it is raised inside the future's     *)
(* done-callback, on the worker thread, never in the driver.               *)
(*                                                                         *)
(* The arguments of a call are the clip (num_frames, source, clip_format),  *)
(* the two sinks (has_outfile, and timecodes which is a handle or None),   *)
(* and callback; progress is a non-empty string, so cbl always ends with   *)
(* the _progress_cb of the call.                                           *)
(* A future that has already resolved when add_done_callback is called     *)
(* runs cb at once in the calling thread; its effect on ctx is that of a   *)
(* callback that a worker runs without interruption, which the             *)
(* interleaving of the workers covers.                                     *)
(***************************************************************************)
EXTENDS Integers, Sequences, FiniteSets, TLC

\* Bounds of the model.
MaxFrames == 3
MaxThreads == 2

\* The driver thread; worker threads are 1..num_threads.
Driver == 0

\* The first line written to the timecode sink (line 173), and the line of
\* a frame (line 49): the integer ms in decimal.
TimecodeHeader == "# timestamp format v2"
TimecodeLine(ms) == ToString(ms)
\* The records of the Y4M sink: the header (lines 168-170) and the record of
\* frame n, "FRAME" and the planes of ctx.frames[n] (lines 55-61).
Y4MFrame(n) == <<"FRAME", n>>

\* A frame's (_DurationNum, _DurationDen); empty when a property is missing.
Durations == {<<1, 2>>}
NoDuration == << >>
\* What the future of a frame resolves to: an error, or a frame with its
\* duration props.
Error == [kind |-> "error", duration |-> NoDuration]
Frame(d) == [kind |-> "frame", duration |-> d]
Results == {Error} \cup {Frame(d) : d \in Durations \cup {NoDuration}}

\* clip.format: color_family, subsampling_w, subsampling_h, bits_per_sample;
\* NoFormat is None, the format of a variable-format clip.
ColorFamilies == {"YUV", "GRAY", "RGB"}
Subsamplings == 0..2
Depths == {8, 10, 16}
Formats ==
    {f \in [color_family : ColorFamilies, subsampling_w : Subsamplings,
            subsampling_h : Subsamplings, bits_per_sample : Depths] :
        f.color_family # "YUV" => f.subsampling_w = 0 /\ f.subsampling_h = 0}
NoFormat == [color_family |-> "None", subsampling_w |-> 0,
             subsampling_h |-> 0, bits_per_sample |-> 0]
YUV420P8 == [color_family |-> "YUV", subsampling_w |-> 1,
             subsampling_h |-> 1, bits_per_sample |-> 8]

\* The callbacks: those of the caller, and the _progress_cb that call k of
\* clip_async_render defines (lines 96-97).
UserCallback(i) == <<"callback", i>>
ProgressCallback(k) == <<"_progress_cb", k>>

VARIABLES
    num_frames,      \* clip.num_frames
    num_threads,     \* core.num_threads
    source,          \* source[n]: what the future of frame n resolves to
    clip_format,     \* clip.format
    has_outfile,     \* the argument outfile is a handle (FALSE: None)
    callback,        \* the argument callback: is_list, and the callbacks
                     \* it holds (the contents of the list object if a list)
    cbl,             \* the list cbl of the call
    call,            \* which call of clip_async_render this is
    queued,          \* ctx.queued
    frames,          \* keys of ctx.frames (frame n is the value at key n)
    frames_rendered, \* ctx.frames_rendered
    ctx_timecodes,   \* ctx.timecodes, each entry a rational <<num, den>>
    lock,            \* owners of the lock of ctx.condition ({} when free)
    bad_timecodes,   \* closure variable bad_timecodes
    timecodes,       \* closure variable timecodes: TRUE a handle, FALSE None
    tcfile,          \* contents of the timecode sink, a sequence of lines
    outfile,         \* records written to the Y4M sink
    observed,        \* indices passed to the callbacks of cbl, in order
    diagnostics,     \* number of times line 122 printed
    inflight,        \* inflight[n]: unresolved requests for frame n
    issued,          \* every index passed to get_frame_async, in order
    dpc,             \* position of the driver
    seed_n,          \* loop variable n of the seeding loop
    pc,              \* pc[t]: position of worker t inside cb
    cb_nn,           \* cb's local nn on worker t
    cb_frame         \* cb's local frame on worker t (its index)

vars == <<num_frames, num_threads, source, clip_format, has_outfile,
          callback, cbl, call, queued, frames, frames_rendered,
          ctx_timecodes, lock, bad_timecodes, timecodes, tcfile, outfile,
          observed, diagnostics, inflight, issued, dpc, seed_n, pc, cb_nn,
          cb_frame>>

ctxvars == <<queued, frames, frames_rendered, ctx_timecodes>>
closurevars == <<bad_timecodes, timecodes>>
sinkvars == <<tcfile, outfile, observed, diagnostics>>
inputvars == <<num_frames, num_threads, source, clip_format, has_outfile,
               callback, cbl, call>>
reqvars == <<inflight, issued>>
drivervars == <<dpc, seed_n>>
localvars == <<cb_nn, cb_frame>>

\* The worker threads of the frame source, one per core.num_threads.
Workers == 1..num_threads
Threads == Workers
Indices == 0..(num_frames - 1)

Min(a, b) == IF a < b THEN a ELSE b
Last(s) == s[Len(s)]

----------------------------------------------------------------------------
\* Rational arithmetic for the timecodes (a / b with b > 0).

RECURSIVE Gcd(_, _)
Gcd(a, b) == IF b = 0 THEN a ELSE Gcd(b, a % b)

Norm(r) == LET g == Gcd(IF r[1] < 0 THEN -r[1] ELSE r[1], r[2])
           IN  IF g = 0 THEN r ELSE <<r[1] \div g, r[2] \div g>>

RatAdd(a, b) == Norm(<<a[1] * b[2] + b[1] * a[2], a[2] * b[2]>>)

\* round(x * 1000) for x = r[1] / r[2] >= 0: nearest integer, ties to even.
RoundMs(r) ==
    LET num == r[1] * 1000
        q == num \div r[2]
        rem2 == 2 * (num % r[2])
    IN  IF rem2 < r[2] THEN q
        ELSE IF rem2 > r[2] THEN q + 1
        ELSE IF q % 2 = 0 THEN q ELSE q + 1

----------------------------------------------------------------------------
\* The format tag of the Y4M header, lines 143-166.

\* Lines 143-146 and 163-164: the formats for which ValueError is raised.
SupportedSubsamplings ==
    {<<1, 1>>, <<1, 0>>, <<0, 0>>, <<2, 2>>, <<2, 0>>, <<0, 1>>}

Y4MFormatError(fmt) ==
    \/ fmt = NoFormat
    \/ fmt.color_family \notin {"YUV", "GRAY"}
    \/ /\ fmt.color_family # "GRAY"
       /\ <<fmt.subsampling_w, fmt.subsampling_h>> \notin SupportedSubsamplings

\* Lines 151-162: the chain of if/elif on ss.
SubsamplingTag(ss) ==
    IF ss = <<1, 1>> THEN "420"
    ELSE IF ss = <<1, 0>> THEN "422"
    ELSE IF ss = <<0, 0>> THEN "444"
    ELSE IF ss = <<2, 2>> THEN "410"
    ELSE IF ss = <<2, 0>> THEN "411"
    ELSE IF ss = <<0, 1>> THEN "440"
    ELSE "ValueError"

\* Y4MFormat with the suffix of line 166 from 8 bits on (>= for >).
Y4MFormat_suffix_from_8(fmt) ==
    LET y4mformat ==
            IF fmt.color_family = "GRAY" THEN "mono"
            ELSE SubsamplingTag(<<fmt.subsampling_w, fmt.subsampling_h>>)
    IN  IF fmt.bits_per_sample >= 8
        THEN y4mformat \o "p" \o ToString(fmt.bits_per_sample)
        ELSE y4mformat

\* Lines 147-166: y4mformat, with the suffix of line 166.
Y4MFormat(fmt) ==
    LET y4mformat ==
            IF fmt.color_family = "GRAY" THEN "mono"
            ELSE SubsamplingTag(<<fmt.subsampling_w, fmt.subsampling_h>>)
    IN  IF fmt.bits_per_sample > 8
        THEN y4mformat \o "p" \o ToString(fmt.bits_per_sample)
        ELSE y4mformat

\* Lines 168-170: the header (width, height and fps are left out).
Y4MHeader == <<"YUV4MPEG2", "C" \o Y4MFormat(clip_format)>>

----------------------------------------------------------------------------
\* Lines 90-99 for the argument c on call k: cbl is c itself when c is a
\* list and a new list otherwise; _progress_cb is appended to cbl, and so
\* to the caller's list when cbl is that list.
Lines90To99(c, k) ==
    [cbl |-> Append(c.items, ProgressCallback(k)),
     callback |-> [c EXCEPT !.items = IF c.is_list
                                      THEN Append(@, ProgressCallback(k))
                                      ELSE @]]

Prologue(c, k) ==
    /\ cbl = Lines90To99(c, k).cbl
    /\ callback = Lines90To99(c, k).callback
    /\ call = k

\* A list of two callbacks.
TwoCallbacks ==
    [is_list |-> TRUE, items |-> <<UserCallback(1), UserCallback(2)>>]

\* A YUV420P8 clip, both sinks given, a list of two callbacks.
DefaultArguments ==
    /\ clip_format = YUV420P8
    /\ has_outfile = TRUE
    /\ timecodes = TRUE
    /\ Prologue(TwoCallbacks, 1)

\* RenderContext.__init__ (lines 31-37) and the closure of clip_async_render
\* (lines 101-103) before the first statement of the driver runs.
RenderContext ==
    /\ queued = num_threads
    /\ frames = {}
    /\ frames_rendered = 0
    /\ ctx_timecodes = << <<0, 1>> >>
    /\ lock = {}
    /\ bad_timecodes = FALSE
    /\ tcfile = << >>
    /\ outfile = << >>
    /\ observed = << >>
    /\ diagnostics = 0
    /\ inflight = [n \in Indices |-> 0]
    /\ issued = << >>
    /\ dpc = "start"
    /\ seed_n = 0
    /\ pc = [t \in Threads |-> "idle"]
    /\ cb_nn = [t \in Threads |-> 0]
    /\ cb_frame = [t \in Threads |-> 0]

\* Any clip of at most MaxFrames frames, any pool of at most MaxThreads
\* workers, any outcome of every future.
Init ==
    /\ num_frames \in 0..MaxFrames
    /\ num_threads \in 1..MaxThreads
    /\ source \in [Indices -> Results]
    /\ DefaultArguments
    /\ RenderContext

\* clip.get_frame_async(n).add_done_callback(cbp)
GetFrameAsync(n) ==
    /\ inflight' = [inflight EXCEPT ![n] = @ + 1]
    /\ issued' = Append(issued, n)

----------------------------------------------------------------------------
\* The driver: clip_async_render, lines 142-191.

\* Start with the timecode header of line 173 written before the format of
\* the clip is looked at.
Start_timecodes_first ==
    /\ dpc = "start"
    /\ tcfile' = IF timecodes THEN Append(tcfile, TimecodeHeader) ELSE tcfile
    /\ IF has_outfile /\ Y4MFormatError(clip_format)
       THEN /\ dpc' = "raised"
            /\ UNCHANGED <<outfile, lock>>
       ELSE /\ outfile' = IF has_outfile THEN Append(outfile, Y4MHeader)
                          ELSE outfile
            /\ lock = {}
            /\ lock' = {Driver}
            /\ dpc' = "seed"
    /\ UNCHANGED <<inputvars, ctxvars, closurevars, observed, diagnostics,
                   reqvars, seed_n, pc, localvars>>

\* Lines 142-175: ValueError for a format the Y4M sink cannot take; or the
\* headers are written, then the condition is acquired.
Start ==
    /\ dpc = "start"
    /\ IF has_outfile /\ Y4MFormatError(clip_format)
       THEN /\ dpc' = "raised"
            /\ UNCHANGED <<outfile, tcfile, lock>>
       ELSE /\ outfile' = IF has_outfile THEN Append(outfile, Y4MHeader)
                          ELSE outfile
            /\ tcfile' = IF timecodes THEN Append(tcfile, TimecodeHeader)
                         ELSE tcfile
            /\ lock = {}
            /\ lock' = {Driver}
            /\ dpc' = "seed"
    /\ UNCHANGED <<inputvars, ctxvars, closurevars, observed, diagnostics,
                   reqvars, seed_n, pc, localvars>>

\* Lines 181-183: one iteration of the seeding loop, or its exit.
Seed ==
    /\ dpc = "seed"
    /\ IF seed_n < Min(num_frames, num_threads)
       THEN /\ GetFrameAsync(seed_n)
            /\ seed_n' = seed_n + 1
            /\ dpc' = dpc
       ELSE /\ dpc' = "check"
            /\ UNCHANGED <<reqvars, seed_n>>
    /\ UNCHANGED <<inputvars, ctxvars, closurevars, sinkvars, lock, pc,
                   localvars>>

\* Lines 185-186: the loop test; wait() releases the lock and blocks.
WaitLoop ==
    /\ dpc = "check"
    /\ IF frames_rendered # num_frames
       THEN /\ dpc' = "wait"
            /\ lock' = {}
       ELSE /\ dpc' = "done"
            /\ lock' = lock
    /\ UNCHANGED <<inputvars, ctxvars, closurevars, sinkvars, reqvars,
                   seed_n, pc, localvars>>

\* wait() returns: the notified driver takes the lock again.
Wake ==
    /\ dpc = "notified"
    /\ lock = {}
    /\ lock' = {Driver}
    /\ dpc' = "check"
    /\ UNCHANGED <<inputvars, ctxvars, closurevars, sinkvars, reqvars,
                   seed_n, pc, localvars>>

----------------------------------------------------------------------------
\* The completion callback cb on worker t, lines 105-140.  cb's parameter n
\* is read at line 106 only; the local frame is read last at line 126.

Goto(t, label) ==
    /\ pc' = [pc EXCEPT ![t] = label]
    /\ UNCHANGED <<cb_nn, cb_frame>>

\* cb is over on worker t: its locals are gone.
Return(t) ==
    /\ pc' = [pc EXCEPT ![t] = "idle"]
    /\ cb_nn' = [cb_nn EXCEPT ![t] = 0]
    /\ cb_frame' = [cb_frame EXCEPT ![t] = 0]

\* An exception leaves cb: the callback is over, nothing else happens.
Raise(t) == Return(t)

\* The future of frame n resolves to an error: f.result() raises (line 106).
FutureFails(t, n) ==
    /\ pc[t] = "idle"
    /\ inflight[n] > 0
    /\ source[n] = Error
    /\ inflight' = [inflight EXCEPT ![n] = @ - 1]
    /\ Raise(t)
    /\ UNCHANGED <<inputvars, ctxvars, closurevars, sinkvars, lock, issued,
                   drivervars>>

\* cb_store with the frame stored under the key ctx.queued instead of n.
cb_store_wrong_key(t, n) ==
    /\ pc[t] = "idle"
    /\ inflight[n] > 0
    /\ source[n] # Error
    /\ inflight' = [inflight EXCEPT ![n] = @ - 1]
    /\ frames' = frames \cup {queued}
    /\ cb_nn' = [cb_nn EXCEPT ![t] = queued]
    /\ pc' = [pc EXCEPT ![t] = "while"]
    /\ UNCHANGED <<inputvars, queued, frames_rendered, ctx_timecodes,
                   closurevars, sinkvars, lock, issued, drivervars, cb_frame>>

\* Lines 106-107: ctx.frames[n] = f.result(); nn = ctx.queued
cb_store(t, n) ==
    /\ pc[t] = "idle"
    /\ inflight[n] > 0
    /\ source[n] # Error
    /\ inflight' = [inflight EXCEPT ![n] = @ - 1]
    /\ frames' = frames \cup {n}
    /\ cb_nn' = [cb_nn EXCEPT ![t] = queued]
    /\ pc' = [pc EXCEPT ![t] = "while"]
    /\ UNCHANGED <<inputvars, queued, frames_rendered, ctx_timecodes,
                   closurevars, sinkvars, lock, issued, drivervars, cb_frame>>

\* Line 109: while ctx.frames_rendered in ctx.frames
cb_while(t) ==
    /\ pc[t] = "while"
    /\ Goto(t, IF frames_rendered \in frames THEN "frame" ELSE "enqueue")
    /\ UNCHANGED <<inputvars, ctxvars, closurevars, sinkvars, lock, reqvars,
                   drivervars>>

\* Lines 113-115 and 123: frame = ctx.frames[ctx.frames_rendered], then the
\* tests of the if and of the elif.
cb_frame_props(t) ==
    /\ pc[t] = "frame"
    /\ IF frames_rendered \notin frames
       THEN Raise(t)
       ELSE /\ cb_frame' = [cb_frame EXCEPT ![t] =
                               IF bad_timecodes THEN 0 ELSE frames_rendered]
            /\ pc' = [pc EXCEPT ![t] =
                         IF bad_timecodes THEN "finish"
                         ELSE IF source[frames_rendered].duration = NoDuration
                              THEN "discard" ELSE "accrue"]
            /\ UNCHANGED cb_nn
    /\ UNCHANGED <<inputvars, ctxvars, closurevars, sinkvars, lock, reqvars,
                   drivervars>>

\* Lines 116-122: the timecodes are discarded and the diagnostic printed.
\* seek(0) and truncate() empty the sink, header included.
cb_discard(t) ==
    /\ pc[t] = "discard"
    /\ bad_timecodes' = TRUE
    /\ tcfile' = IF timecodes THEN << >> ELSE tcfile
    /\ timecodes' = FALSE
    /\ ctx_timecodes' = << >>
    /\ diagnostics' = diagnostics + 1
    /\ pc' = [pc EXCEPT ![t] = "finish"]
    /\ cb_frame' = [cb_frame EXCEPT ![t] = 0]
    /\ UNCHANGED <<inputvars, queued, frames, frames_rendered, outfile,
                   observed, lock, reqvars, drivervars, cb_nn>>

\* Lines 124-126: ctx.timecodes.append(ctx.timecodes[-1] + num / den)
cb_accrue(t) ==
    /\ pc[t] = "accrue"
    /\ IF ctx_timecodes = << >>
       THEN /\ Raise(t)
            /\ UNCHANGED ctx_timecodes
       ELSE /\ ctx_timecodes' = Append(ctx_timecodes,
                    RatAdd(Last(ctx_timecodes), source[cb_frame[t]].duration))
            /\ pc' = [pc EXCEPT ![t] = "finish"]
            /\ cb_frame' = [cb_frame EXCEPT ![t] = 0]
            /\ UNCHANGED cb_nn
    /\ UNCHANGED <<inputvars, queued, frames, frames_rendered, closurevars,
                   sinkvars, lock, reqvars, drivervars>>

\* finish_frame(outfile, timecodes, ctx), lines 48-61: the timecode line of
\* ctx.timecodes[ctx.frames_rendered], then, if outfile is given, the FRAME
\* record of ctx.frames[ctx.frames_rendered].
finish_frame(t) ==
    LET tc_ok == ~timecodes \/ frames_rendered + 1 <= Len(ctx_timecodes)
        f_ok == ~has_outfile \/ frames_rendered \in frames
    IN  /\ pc[t] = "finish"
        /\ tcfile' = IF timecodes /\ tc_ok
                     THEN Append(tcfile, TimecodeLine(
                              RoundMs(ctx_timecodes[frames_rendered + 1])))
                     ELSE tcfile
        /\ outfile' = IF has_outfile /\ tc_ok /\ f_ok
                      THEN Append(outfile, Y4MFrame(frames_rendered))
                      ELSE outfile
        /\ IF tc_ok /\ f_ok THEN Goto(t, "callbacks") ELSE Raise(t)
        /\ UNCHANGED <<inputvars, ctxvars, closurevars, observed, diagnostics,
                       lock, reqvars, drivervars>>

\* Line 128: every callback of cbl gets (frames_rendered, frames[frames_rendered]).
cb_callbacks(t) ==
    /\ pc[t] = "callbacks"
    /\ IF frames_rendered \in frames
       THEN /\ observed' = Append(observed, frames_rendered)
            /\ Goto(t, "del")
       ELSE /\ Raise(t)
            /\ UNCHANGED observed
    /\ UNCHANGED <<inputvars, ctxvars, closurevars, tcfile, outfile,
                   diagnostics, lock, reqvars, drivervars>>

\* Line 129: del ctx.frames[ctx.frames_rendered]
cb_del(t) ==
    /\ pc[t] = "del"
    /\ IF frames_rendered \in frames
       THEN /\ frames' = frames \ {frames_rendered}
            /\ Goto(t, "inc")
       ELSE /\ Raise(t)
            /\ UNCHANGED frames
    /\ UNCHANGED <<inputvars, queued, frames_rendered, ctx_timecodes,
                   closurevars, sinkvars, lock, reqvars, drivervars>>

\* Line 130: ctx.frames_rendered += 1
cb_inc(t) ==
    /\ pc[t] = "inc"
    /\ frames_rendered' = frames_rendered + 1
    /\ Goto(t, "while")
    /\ UNCHANGED <<inputvars, queued, frames, ctx_timecodes, closurevars,
                   sinkvars, lock, reqvars, drivervars>>

\* Lines 133-136: one more request, for the index read at line 107.
cb_enqueue(t) ==
    /\ pc[t] = "enqueue"
    /\ IF cb_nn[t] < num_frames
       THEN /\ queued' = queued + 1
            /\ GetFrameAsync(cb_nn[t])
       ELSE UNCHANGED <<queued, reqvars>>
    /\ pc' = [pc EXCEPT ![t] = "acquire"]
    /\ cb_nn' = [cb_nn EXCEPT ![t] = 0]
    /\ UNCHANGED <<inputvars, frames, frames_rendered, ctx_timecodes,
                   closurevars, sinkvars, lock, drivervars, cb_frame>>

\* Line 138: ctx.condition.acquire() blocks while another thread owns the lock.
cb_acquire(t) ==
    /\ pc[t] = "acquire"
    /\ lock = {}
    /\ lock' = {t}
    /\ Goto(t, "notify")
    /\ UNCHANGED <<inputvars, ctxvars, closurevars, sinkvars, reqvars,
                   drivervars>>

\* Lines 139-140: notify() wakes the driver if it waits; release().
cb_notify(t) ==
    /\ pc[t] = "notify"
    /\ lock = {t}
    /\ dpc' = IF dpc = "wait" THEN "notified" ELSE dpc
    /\ lock' = {}
    /\ Return(t)
    /\ UNCHANGED <<inputvars, ctxvars, closurevars, sinkvars, reqvars,
                   seed_n>>

\* cb on a future that resolved to a frame.
cb_result(t) ==
    \/ \E n \in Indices : cb_store(t, n)
    \/ cb_while(t)
    \/ cb_frame_props(t)
    \/ cb_discard(t)
    \/ cb_accrue(t)
    \/ finish_frame(t)
    \/ cb_callbacks(t)
    \/ cb_del(t)
    \/ cb_inc(t)
    \/ cb_enqueue(t)
    \/ cb_acquire(t)
    \/ cb_notify(t)

cb(t) ==
    \/ \E n \in Indices : FutureFails(t, n)
    \/ cb_result(t)

clip_async_render == Start \/ Seed \/ WaitLoop \/ Wake

Next == clip_async_render \/ \E t \in Workers : cb(t)

Spec == Init /\ [][Next]_vars

----------------------------------------------------------------------------
\* The runs of Spec in which the frame source delivers its completions one
\* at a time: a callback starts only when no other callback is running.
\* Nothing in render.py enforces this; it is a property a frame source may
\* or may not have.

NextSerial ==
    \/ clip_async_render
    \/ \E t \in Workers :
          /\ pc[t] = "idle" => \A u \in Threads : pc[u] = "idle"
          /\ cb(t)

SpecSerial == Init /\ [][NextSerial]_vars

----------------------------------------------------------------------------
\* The runs of Spec in which ctx.condition.wait() may also return without a
\* notify (a spurious wake-up).

\* Line 186: wait() returns though no callback has notified.
SpuriousWake ==
    /\ dpc = "wait"
    /\ dpc' = "notified"
    /\ UNCHANGED <<inputvars, ctxvars, closurevars, sinkvars, lock, reqvars,
                   seed_n, pc, localvars>>

NextSpuriousWake == Next \/ SpuriousWake

SpecSpuriousWake == Init /\ [][NextSpuriousWake]_vars

SpecSpuriousWakeSerial == Init /\ [][NextSerial \/ SpuriousWake]_vars

----------------------------------------------------------------------------
\* The render of 10 frames of which frame 3 alone lacks duration props, on a
\* pool of one worker; no future fails, so no callback starts with FutureFails.

InitMissingDuration ==
    /\ num_frames = 10
    /\ num_threads = 1
    /\ source = [n \in Indices |-> IF n = 3 THEN Frame(NoDuration)
                                             ELSE Frame(<<1, 2>>)]
    /\ DefaultArguments
    /\ RenderContext

NextResult == clip_async_render \/ \E t \in Workers : cb_result(t)

SpecMissingDuration == InitMissingDuration /\ [][NextResult]_vars

----------------------------------------------------------------------------
\* Vocabulary of the properties.

Range(s) == {s[i] : i \in 1..Len(s)}

\* s is 0, 1, ..., Len(s) - 1.
Counts(s) == \A i \in 1..Len(s) : s[i] = i - 1

\* The frame indices of the FRAME records of the Y4M sink, in order.
WrittenFrames == [i \in 1..(Len(outfile) - 1) |-> outfile[i + 1][2]]

RECURSIVE SumTo(_, _)
SumTo(f, n) == IF n < 0 THEN 0 ELSE f[n] + SumTo(f, n - 1)

\* Requests issued whose future has not resolved yet.
InFlight == SumTo(inflight, num_frames - 1)

\* The future of frame n has resolved.
Resolved(n) == n \in Range(issued) /\ inflight[n] = 0
Failed(n) == Resolved(n) /\ source[n] = Error
SomeFailed == \E n \in Indices : Failed(n)

\* Every future resolves to a frame.
AllSucceed == \A n \in Indices : source[n] # Error

\* Worker t is between the store of line 106 and the request of line 136.
Inside(t) == pc[t] \notin {"idle", "acquire", "notify"}

\* No callback is running and the driver has seeded its requests.
Steady == /\ \A t \in Threads : pc[t] = "idle"
          /\ dpc \notin {"start", "seed"}

\* The render is over: no thread can take a step.
Halted == ~ENABLED Next

----------------------------------------------------------------------------
\* Renders of a clip of any format, with and without each sink, on a pool of
\* one worker; every future resolves to a frame.

InitFormat ==
    /\ num_frames \in 0..1
    /\ num_threads = 1
    /\ source \in [Indices -> {Frame(d) : d \in Durations}]
    /\ clip_format \in Formats \cup {NoFormat}
    /\ has_outfile \in BOOLEAN
    /\ timecodes \in BOOLEAN
    /\ Prologue(TwoCallbacks, 1)
    /\ RenderContext

SpecFormat == InitFormat /\ [][NextResult]_vars

----------------------------------------------------------------------------
\* find_scene_changes, lines 212-255: the render of line 253 has no sink, the
\* one callback _cb and the progress display; the clip is YUV420P8 (line
\* 232).  _cb reads the props that WWXD and Scxvid set on every frame.

SceneChangeModes ==
    {"WWXD", "SCXVID", "WWXD_SCXVID_UNION", "WWXD_SCXVID_INTERSECTION"}

\* The props of a frame that _cb reads: Scenechange and _SceneChangePrev.
SceneProps == [Scenechange : {0, 1}, SceneChangePrev : {0, 1}]

\* Lines 240-251: _cb appends n for a frame of props f.
cb_appends(mode, f) ==
    IF mode = "WWXD" THEN f.Scenechange = 1
    ELSE IF mode = "SCXVID" THEN f.SceneChangePrev = 1
    ELSE IF mode = "WWXD_SCXVID_UNION"
         THEN f.Scenechange = 1 \/ f.SceneChangePrev = 1
    ELSE IF mode = "WWXD_SCXVID_INTERSECTION"
         THEN f.Scenechange = 1 /\ f.SceneChangePrev = 1
    ELSE FALSE

\* Lines 231-255: frames after _cb has been called with the indices of
\* observed, sorted; props[n] are the props of frame n.
find_scene_changes(mode, props) ==
    SortSeq(SelectSeq(observed, LAMBDA n : cb_appends(mode, props[n])),
            LAMBDA a, b : a < b)

InitSceneChanges ==
    /\ num_frames \in 0..MaxFrames
    /\ num_threads \in 1..MaxThreads
    /\ source \in [Indices -> Results]
    /\ clip_format = YUV420P8
    /\ has_outfile = FALSE
    /\ timecodes = FALSE
    /\ Prologue([is_list |-> FALSE, items |-> <<UserCallback(1)>>], 1)
    /\ RenderContext

SpecSceneChanges == InitSceneChanges /\ [][Next]_vars

SpecSceneChangesSerial == InitSceneChanges /\ [][NextSerial]_vars

----------------------------------------------------------------------------
\* Two calls of clip_async_render one after the other on one clip, with the
\* same callback argument and fresh sinks, on a pool of one worker; every
\* future resolves to a frame.

InitTwoCalls ==
    /\ num_frames \in 0..MaxFrames
    /\ num_threads = 1
    /\ source \in [Indices -> {Frame(d) : d \in Durations}]
    /\ DefaultArguments
    /\ RenderContext

\* The first call has returned and its callbacks are over; the caller calls
\* again: lines 90-103 with the argument callback as the first call left it,
\* a new RenderContext and new sinks.
CallAgain ==
    /\ dpc = "done"
    /\ call = 1
    /\ \A t \in Threads : pc[t] = "idle"
    /\ call' = call + 1
    /\ cbl' = Lines90To99(callback, call + 1).cbl
    /\ callback' = Lines90To99(callback, call + 1).callback
    /\ timecodes' = TRUE
    /\ queued' = num_threads
    /\ frames' = {}
    /\ frames_rendered' = 0
    /\ ctx_timecodes' = << <<0, 1>> >>
    /\ lock' = {}
    /\ bad_timecodes' = FALSE
    /\ tcfile' = << >>
    /\ outfile' = << >>
    /\ observed' = << >>
    /\ diagnostics' = 0
    /\ inflight' = [n \in Indices |-> 0]
    /\ issued' = << >>
    /\ dpc' = "start"
    /\ seed_n' = 0
    /\ UNCHANGED <<num_frames, num_threads, source, clip_format, has_outfile,
                   pc, localvars>>

NextTwoCalls == NextResult \/ CallAgain

SpecTwoCalls == InitTwoCalls /\ [][NextTwoCalls]_vars

----------------------------------------------------------------------------
\* Renders with and without a timecode sink, of clips whose frames carry
\* their duration props or not; every future resolves to a frame.

InitTimecodeList ==
    /\ num_frames \in 0..MaxFrames
    /\ num_threads \in 1..MaxThreads
    /\ source \in [Indices -> {Frame(d) : d \in Durations \cup {NoDuration}}]
    /\ clip_format = YUV420P8
    /\ has_outfile = TRUE
    /\ timecodes \in BOOLEAN
    /\ Prologue(TwoCallbacks, 1)
    /\ RenderContext

SpecTimecodeList == InitTimecodeList /\ [][NextResult]_vars

SpecTimecodeListSerial == InitTimecodeList /\ [][NextSerial]_vars

----------------------------------------------------------------------------
\* The render of 8 frames on a pool of 3 whose futures resolve in the order
\* 2, 0, 1, 4, 3, 6, 5, 7, every one to a frame with its duration props.
\* A future resolves when the callback of the one before it is over: the
\* arrivals of the scenario are the runs of cb, one after the other.

ArrivalOrder == <<2, 0, 1, 4, 3, 6, 5, 7>>

InitArrivalOrder ==
    /\ num_frames = 8
    /\ num_threads = 3
    /\ source = [n \in Indices |-> Frame(<<1, 2>>)]
    /\ DefaultArguments
    /\ RenderContext

\* Futures resolved so far: requests issued less requests unresolved.
Arrived == Len(issued) - SumTo(inflight, num_frames - 1)

\* cb on worker t; the next future to resolve is the next of ArrivalOrder.
cb_arrival(t) ==
    \/ /\ \A u \in Threads : pc[u] = "idle"
       /\ Arrived < Len(ArrivalOrder)
       /\ cb_store(t, ArrivalOrder[Arrived + 1])
    \/ /\ pc[t] # "idle"
       /\ cb_result(t)

NextArrivalOrder == clip_async_render \/ \E t \in Workers : cb_arrival(t)

SpecArrivalOrder == InitArrivalOrder /\ [][NextArrivalOrder]_vars

----------------------------------------------------------------------------
\* C1: when every future resolves to a frame, the frames written to the Y4M
\* sink and the frames passed to the observers are 0, 1, 2, ... in that
\* order, each once, whatever the order of completion; when the render
\* returns they are all of 0..N-1 and, with every duration present, the
\* timecodes hold one entry per frame after the initial 0.
C1_FlushedInOrderOnce ==
    AllSucceed =>
        /\ Counts(observed)
        /\ Counts(WrittenFrames)
        /\ dpc = "done" =>
              /\ Len(observed) = num_frames
              /\ Len(WrittenFrames) = num_frames
              /\ ~bad_timecodes => Len(ctx_timecodes) = num_frames + 1

\* C2: at every instant ctx.frames holds at most num_threads frames.
C2_PendingAtMostThreads == Cardinality(frames) <= num_threads

\* C2 as amended: every key of ctx.frames is a frame index below num_frames,
\* so ctx.frames holds at most num_frames frames (and not at most
\* num_threads).
C2_PendingAtMostFrames ==
    /\ frames \subseteq Indices
    /\ Cardinality(frames) <= num_frames

\* C2, its case: the frame at the cursor is the last to resolve, and
\* ctx.frames holds every frame of a clip longer than the pool is wide.
C2_CursorFrameSlowest ==
    /\ num_frames > num_threads
    /\ frames = Indices
    /\ frames_rendered = 0

\* C3: when a future has resolved to an error and the render is over, the
\* driver is not left blocked in ctx.condition.wait().
C3_FailureReachesDriver == SomeFailed /\ Halted => dpc # "wait"

\* C4: once a future has resolved to an error, no callback issues a further
\* frame request: line 133 of a later completion requests nothing.
C4_NoRequestAfterFailure ==
    [][SomeFailed /\ (\E t \in Threads : pc[t] = "enqueue" /\ pc'[t] # "enqueue")
          => issued' = issued]_vars

\* C5: when every future resolves to a frame, the render cannot come to a
\* halt before the driver has left its wait loop (which it leaves only with
\* frames_rendered = num_frames) and returned.
C5_DriverReturns == AllSucceed /\ Halted => dpc = "done"

\* C6: the store/flush/reschedule step of a callback runs under the one lock
\* of the render, so two callbacks are never inside that step together.
C6_CallbacksExclusive ==
    \A t, u \in Threads : Inside(t) /\ Inside(u) => t = u

\* C7: when every future resolves to a frame, no index is requested twice
\* and, when the render returns, every index of 0..N-1 has been requested.
C7_RequestedExactlyOnce ==
    AllSucceed =>
        /\ \A i, j \in 1..Len(issued) : issued[i] = issued[j] => i = j
        /\ dpc = "done" => Range(issued) = Indices

\* C8: the driver seeds min(N, W) requests; never more than W requests are
\* unresolved; and while no future has failed, between callbacks, the number
\* of unresolved requests is min(W, number of frames not yet resolved).
C8_WindowKeptFull ==
    /\ dpc \notin {"start", "seed"} => seed_n = Min(num_frames, num_threads)
    /\ InFlight <= num_threads
    /\ ~SomeFailed /\ Steady =>
          InFlight = Min(num_threads,
                         Cardinality({n \in Indices : ~Resolved(n)}))

\* C9: 10 frames, frame 3 alone without duration props: when the render
\* returns the timecode sink holds the header line and nothing else, and
\* timecode tracking is off.
C9_HeaderLineOnly ==
    dpc = "done" => tcfile = <<TimecodeHeader>> /\ bad_timecodes

\* C10: timecode tracking is switched off once and for good: the step that
\* switches it off leaves no data line in the sink and prints the one
\* diagnostic, and no later step writes a line, appends a timecode, prints
\* the diagnostic again or switches tracking back on.
C10_TrackingOffOnce ==
    [][/\ bad_timecodes =>
            /\ bad_timecodes'
            /\ tcfile' = tcfile
            /\ ctx_timecodes' = ctx_timecodes
            /\ diagnostics' = diagnostics
       /\ ~bad_timecodes /\ bad_timecodes' =>
            /\ \A i \in 1..Len(tcfile') : tcfile'[i] = TimecodeHeader
            /\ ctx_timecodes' = << >>
            /\ diagnostics' = 1]_vars

\* C11: 8 frames, pool of 3, arrivals 2,0,1,4,3,6,5,7: the observers see
\* 0..7 in order and the flush events are {0,1,2} once 0, 1 and 2 have all
\* arrived (nothing before), {3,4} once 3 and 4 have, {5,6} once 5 and 6 have,
\* {7} once 7 has: after k arrivals 0, 0, 3, 3, 5, 5, 7, 8 frames are flushed.
C11_ClaimedFlushed == <<0, 0, 3, 3, 5, 5, 7, 8>>

C11_Flushed == <<0, 1, 3, 3, 5, 5, 7, 8>>

ExpectedY4M == <<Y4MHeader>> \o [i \in 1..num_frames |-> Y4MFrame(i - 1)]

C12_SameContainerOutput ==
    AllSucceed /\ dpc = "done" => outfile = ExpectedY4M

\* Line 128: the calls made to the callbacks of cbl, in order: for every
\* index of observed, every callback of cbl in the order of the list.
ObserverCalls ==
    [k \in 1..(Len(observed) * Len(cbl)) |->
        <<cbl[((k - 1) % Len(cbl)) + 1], observed[((k - 1) \div Len(cbl)) + 1]>>]

\* C13: a frame is written to the sinks (timecode line and FRAME record)
\* before the observers get it; the observers are the caller's callbacks in
\* list order, then _progress_cb; every observer gets every flushed frame
\* once; and nothing is written for the next frame before the observers of
\* this one are done.
C13_WrittenThenObserved ==
    /\ cbl = TwoCallbacks.items \o <<ProgressCallback(call)>>
    /\ Len(ObserverCalls) = Len(observed) * Len(cbl)
    /\ \A i, j \in 1..Len(observed) : observed[i] = observed[j] => i = j
    /\ Len(observed) <= Len(WrittenFrames)
    /\ Len(WrittenFrames) <= Len(observed) + 1
    /\ \A i \in 1..Len(observed) : observed[i] = WrittenFrames[i]
    /\ timecodes => Len(tcfile) = Len(outfile)

\* C14: for a variable-format clip, a colour family other than YUV and
\* GRAY, or a YUV subsampling outside the six of the table, a render to a
\* Y4M sink never gets past the check of the format: it raises with no frame
\* requested and nothing written to the Y4M sink or to the timecode sink.
C14_ConfigError ==
    \/ clip_format = NoFormat
    \/ clip_format.color_family \notin {"YUV", "GRAY"}
    \/ /\ clip_format.color_family = "YUV"
       /\ <<clip_format.subsampling_w, clip_format.subsampling_h>> \notin
             {<<1, 1>>, <<1, 0>>, <<0, 0>>, <<2, 2>>, <<2, 0>>, <<0, 1>>}

C14_RaisedBeforeAnyRequest ==
    /\ has_outfile /\ C14_ConfigError =>
          /\ dpc \in {"start", "raised"}
          /\ issued = << >>
          /\ outfile = << >>
          /\ tcfile = << >>
          /\ observed = << >>
          /\ lock = {}
    /\ dpc = "raised" => has_outfile /\ C14_ConfigError

\* C14, its case: a YUV clip of subsampling (2, 1) and both sinks given; the
\* call has raised.
C14_UnsupportedSubsamplingRaised ==
    /\ dpc = "raised"
    /\ clip_format.color_family = "YUV"
    /\ <<clip_format.subsampling_w, clip_format.subsampling_h>> = <<2, 1>>
    /\ timecodes
    /\ num_frames > 0

\* C17: once the header is written its tag is "mono" for GRAY and the entry
\* of the table for YUV, followed by p<bits> exactly when bits_per_sample is
\* above 8; a YUV clip of any other subsampling raises instead.
C17_Table ==
    (<<1, 1>> :> "420") @@ (<<1, 0>> :> "422") @@ (<<0, 0>> :> "444") @@
    (<<2, 2>> :> "410") @@ (<<2, 0>> :> "411") @@ (<<0, 1>> :> "440")

C17_Tag ==
    LET ss == <<clip_format.subsampling_w, clip_format.subsampling_h>>
        tag == IF clip_format.color_family = "GRAY" THEN "mono"
               ELSE C17_Table[ss]
    IN  IF clip_format.bits_per_sample > 8
        THEN tag \o "p" \o ToString(clip_format.bits_per_sample)
        ELSE tag

C17_HeaderTag ==
    has_outfile /\ dpc # "start" =>
        IF /\ clip_format.color_family = "YUV"
           /\ <<clip_format.subsampling_w, clip_format.subsampling_h>>
                 \notin DOMAIN C17_Table
        THEN dpc = "raised" /\ outfile = << >>
        ELSE dpc # "raised" =>
                /\ outfile[1] = <<"YUV4MPEG2", "C" \o C17_Tag>>
                /\ clip_format = YUV420P8 => outfile[1][2] = "C420"
                /\ clip_format = [YUV420P8 EXCEPT !.bits_per_sample = 10] =>
                      outfile[1][2] = "C420p10"

\* C17, its case: the header of a 10-bit YUV clip of subsampling (1, 1) has
\* been written.
C17_Header420p10 ==
    /\ Len(outfile) > 0
    /\ clip_format = [YUV420P8 EXCEPT !.bits_per_sample = 10]
    /\ outfile[1][2] = "C420p10"

\* Every frame of the clip carries its duration props.
AllTimed == \A n \in Indices : source[n] \in {Frame(d) : d \in Durations}

\* The start time of frame k: the sum of the durations of frames 0..k-1.
RECURSIVE StartTime(_)
StartTime(k) ==
    IF k = 0 THEN <<0, 1>> ELSE RatAdd(StartTime(k - 1), source[k - 1].duration)

\* v is an integer nearest to r * 1000.
NearestMs(v, r) ==
    LET d == v * r[2] - 1000 * r[1]
    IN  2 * (IF d < 0 THEN -d ELSE d) <= r[2]

\* C15: every frame has its duration and the timecode sink is given: the
\* sink holds the header, then one line per flushed frame in frame order,
\* the line of frame k being the start time of frame k in ms rounded to a
\* nearest integer (0 for frame 0); the values never decrease; when the
\* render returns there are exactly num_frames lines after the header.
C15_TimecodeLines ==
    AllTimed =>
        /\ dpc # "start" => Len(tcfile) >= 1 /\ tcfile[1] = TimecodeHeader
        /\ Len(tcfile) <= num_frames + 1
        /\ \A k \in 0..(Len(tcfile) - 2) :
              /\ \E v \in 0..(1000 * MaxFrames) :
                    /\ NearestMs(v, StartTime(k))
                    /\ tcfile[k + 2] = TimecodeLine(v)
              /\ k > 0 => RoundMs(StartTime(k - 1)) <= RoundMs(StartTime(k))
        /\ dpc = "done" => Len(tcfile) = num_frames + 1

\* C16: when the render of find_scene_changes returns, the list returned is
\* ascending without duplicates and holds n exactly when the policy of the
\* mode holds for frame n (WWXD set; SCXVID set; one of them; both), for
\* every mode and whatever the flags of the frames are.
C16_Flagged(mode, f) ==
    LET wwxd == f.Scenechange = 1
        scxvid == f.SceneChangePrev = 1
    IN  \/ mode = "WWXD" /\ wwxd
        \/ mode = "SCXVID" /\ scxvid
        \/ mode = "WWXD_SCXVID_UNION" /\ (wwxd \/ scxvid)
        \/ mode = "WWXD_SCXVID_INTERSECTION" /\ wwxd /\ scxvid

C16_SceneChangeList ==
    AllSucceed /\ dpc = "done" =>
        \A mode \in SceneChangeModes, props \in [Indices -> SceneProps] :
            LET r == find_scene_changes(mode, props)
            IN  /\ \A i, j \in 1..Len(r) : i < j => r[i] < r[j]
                /\ Range(r) = {n \in Indices : C16_Flagged(mode, props[n])}

\* The frame of index n has arrived: one of the requests for n has resolved,
\* and to a frame.
FrameArrived(n) ==
    /\ source[n] # Error
    /\ Cardinality({i \in 1..Len(issued) : issued[i] = n}) > inflight[n]

\* C18: the cursor never decreases, and when a callback leaves its flush
\* loop (line 109 finds the cursor's frame absent) the cursor is the
\* smallest index whose frame has not arrived, and every key of ctx.frames
\* is above the cursor and below num_frames.
C18_MaximalPrefixFlush ==
    [][/\ frames_rendered' >= frames_rendered
       /\ (\E t \in Threads : pc[t] = "while" /\ pc'[t] = "enqueue") =>
             /\ frames_rendered \notin frames
             /\ frames_rendered <= num_frames
             /\ \A n \in 0..(frames_rendered - 1) : FrameArrived(n)
             /\ frames_rendered < num_frames => ~FrameArrived(frames_rendered)
             /\ \A k \in frames : frames_rendered < k /\ k < num_frames]_vars

\* C19: whatever wakes the driver, it returns only with the cursor at
\* num_frames, and when it has returned every frame of 0..N-1 has been
\* written to the sinks and passed to the observers.
C19_ReturnsOnlyWhenAllFlushed ==
    dpc = "done" =>
        /\ frames_rendered >= num_frames
        /\ Range(WrittenFrames) = Indices
        /\ Range(observed) = Indices
        /\ ~bad_timecodes => Len(tcfile) >= num_frames + 1

\* C20: a call leaves the list passed as callback as it was, so in a second
\* call with the same list cbl is that list and the _progress_cb of the
\* second call: no callback of the first call is in it, and every callback
\* of cbl is called once for every flushed frame.
C20_CallbackListUnchanged ==
    /\ dpc = "done" => callback.items = TwoCallbacks.items
    /\ call = 2 =>
          /\ cbl = TwoCallbacks.items \o <<ProgressCallback(2)>>
          /\ \A o \in Range(cbl), n \in Range(observed) :
                Cardinality({k \in 1..Len(ObserverCalls) :
                                ObserverCalls[k] = <<o, n>>}) = 1

\* C20 in the second call only: the _progress_cb of the first call is not
\* called.
C20_FirstProgressNotCalled ==
    call = 2 => \A k \in 1..Len(ObserverCalls) :
                    ObserverCalls[k][1] # ProgressCallback(1)

\* C21: the list that line 191 returns, ctx.timecodes as the driver leaves
\* its wait loop: with every frame carrying its duration it has num_frames
\* + 1 entries, entry k the sum of the durations of frames 0..k-1 (entry 0
\* is 0); with a frame lacking its duration it is empty; with a timecode
\* sink or without.
C21_ReturnedTimecodes ==
    [][dpc = "check" /\ dpc' = "done" =>
          IF AllTimed
          THEN /\ Len(ctx_timecodes) = num_frames + 1
               /\ \A k \in 0..num_frames : ctx_timecodes[k + 1] = StartTime(k)
          ELSE ctx_timecodes = << >>]_vars

====
